---- MODULE Spec2Model ----
(***************************************************************************)
(* A model of RingBuff<T, CAP> (src/src/lib.rs): a fixed-capacity ring     *)
(* buffer over an array of Option<T>, with a reader cursor, a writer       *)
(* cursor and an element count.                                            *)
(*                                                                         *)
(* Option<T> is modelled as a sequence of length at most one: None is <<>> *)
(* and Some(x) is <<x>>.                                                   *)
(*                                                                         *)
(* usize arithmetic: a usize value v is held as the integer v when         *)
(* v < 2^63 and as v - 2^64 otherwise, so that usize::MAX is -1. Addition  *)
(* and subtraction of small numbers are then plain integer arithmetic      *)
(* (the wrap at 2^64 is the step between -1 and 0), and the unsigned order *)
(* is ULt below. An overflowing `-= 1` panics in a debug build and wraps   *)
(* in a release build; the build is chosen once, in Init.                  *)
(***************************************************************************)
EXTENDS Integers, Sequences, FiniteSets, TLC

\* Largest capacity CAP explored (CAP ranges over 1..MaxCap).
MaxCap == 3
\* Elements are 1..MaxElem.
MaxElem == 2
\* How far below zero (that is, below 2^64) the count may wrap before the
\* model stops popping.
MaxUnderflow == 2

VARIABLES
    CAP,      \* const CAP: usize
    build,    \* "debug" (overflow checks on) or "release" (wrapping)
    data,     \* data: [Option<T>; CAP], indexed 0..CAP-1
    reader,   \* reader: usize
    writer,   \* writer: usize
    size,     \* size: usize
    status,   \* "ok", or how the last call failed to return: "panic", "hang"
    op,       \* the last operation called
    arg,      \* its argument
    ret,      \* its return value (an Option<T>; <<>> for a unit return)
    calls,    \* the predicate invocations of the last retain/retain_mut
    pre,      \* the buffer (and the reference queue) before the last call
    q         \* reference FIFO queue, oldest first

vars == <<CAP, build, data, reader, writer, size, status, op, arg, ret, calls, pre, q>>

Elem == 1..MaxElem

None == <<>>

Some(x) == <<x>>

is_some(o) == o # None

is_none(o) == o = None

unwrap(o) == o[1]

\* a < b as usize values
ULt(a, b) == IF (a < 0) = (b < 0) THEN a < b ELSE b < 0

UGe(a, b) == ~ULt(a, b)

\* The buffer as a value.
Self == [data |-> data, reader |-> reader, writer |-> writer, size |-> size]

----------------------------------------------------------------------------
\* Index arithmetic and queries

next_index(index) == IF index = CAP - 1 THEN 0 ELSE index + 1

previous_index(index) == IF index = 0 THEN CAP - 1 ELSE index - 1

is_empty(b) == b.size = 0

is_full(b) == b.size = CAP

len(b) == b.size

capacity == CAP

relative_to_absolute_index(b, index) ==
    IF UGe(index, len(b)) THEN None
    ELSE IF b.reader + index >= capacity
         THEN Some((b.reader + index) % capacity)
         ELSE Some(b.reader + index)

\* Mutant of get: the logical index is used as the physical one.
get_absolute(b, index) ==
    IF UGe(index, len(b)) THEN None ELSE b.data[index]

get(b, index) ==
    IF UGe(index, len(b)) THEN None
    ELSE b.data[unwrap(relative_to_absolute_index(b, index))]

get_mut(b, index) ==
    IF UGe(index, len(b)) THEN None
    ELSE b.data[unwrap(relative_to_absolute_index(b, index))]

----------------------------------------------------------------------------
\* new()

new(cap) ==
    [data |-> [k \in 0..(cap - 1) |-> None], reader |-> 0, writer |-> 0, size |-> 0]

\* Mutant of push_back: a full buffer is overwritten at the writer without
\* the reader moving.
push_back_no_evict(b, element) ==
    LET b2 == [b EXCEPT !.data[b.writer] = Some(element)]
        b3 == [b2 EXCEPT !.size = b2.size + (IF ~is_full(b2) THEN 1 ELSE 0)]
    IN  [b3 EXCEPT !.writer = next_index(b3.writer)]

\* push_back(element): the buffer after the call
push_back(b, element) ==
    LET b1 == IF is_full(b) THEN [b EXCEPT !.reader = next_index(b.reader)] ELSE b
        b2 == [b1 EXCEPT !.data[b1.writer] = Some(element)]
        b3 == [b2 EXCEPT !.size = b2.size + (IF ~is_full(b2) THEN 1 ELSE 0)]
    IN  [b3 EXCEPT !.writer = next_index(b3.writer)]

\* Mutant of pop: the reader is not advanced.
pop_no_advance(b, bld) ==
    IF b.size = 0 /\ bld = "debug"
    THEN [buf |-> b, ret |-> None, status |-> "panic"]
    ELSE [buf |-> [b EXCEPT !.size = b.size - 1, !.data[b.reader] = None],
          ret |-> b.data[b.reader],
          status |-> "ok"]

\* Mutant of pop: the element is read but left in its slot.
pop_no_take(b, bld) ==
    LET rd == b.reader
        b1 == [b EXCEPT !.reader = next_index(b.reader)]
    IN  IF b1.size = 0 /\ bld = "debug"
        THEN [buf |-> b1, ret |-> None, status |-> "panic"]
        ELSE [buf |-> [b1 EXCEPT !.size = b1.size - 1],
              ret |-> b1.data[rd],
              status |-> "ok"]

\* pop(): [buf, ret, status]. `self.size -= 1` on size = 0 panics in a debug
\* build, after the reader has moved, and wraps to usize::MAX in a release
\* build.
pop(b, bld) ==
    LET rd == b.reader
        b1 == [b EXCEPT !.reader = next_index(b.reader)]
    IN  IF b1.size = 0 /\ bld = "debug"
        THEN [buf |-> b1, ret |-> None, status |-> "panic"]
        ELSE [buf |-> [b1 EXCEPT !.size = b1.size - 1, !.data[rd] = None],
              ret |-> b1.data[rd],
              status |-> "ok"]

----------------------------------------------------------------------------
Init ==
    /\ CAP \in 1..MaxCap
    /\ build \in {"debug", "release"}
    /\ data = new(CAP).data
    /\ reader = new(CAP).reader
    /\ writer = new(CAP).writer
    /\ size = new(CAP).size
    /\ status = "ok"
    /\ op = "new"
    /\ arg = None
    /\ ret = None
    /\ calls = <<>>
    /\ pre = [buf |-> new(CAP), q |-> <<>>]
    /\ q = <<>>

\* The buffer becomes b; the call is recorded.
Call(name, a, b, r, st, cs, newq) ==
    /\ status = "ok"
    /\ data' = b.data
    /\ reader' = b.reader
    /\ writer' = b.writer
    /\ size' = b.size
    /\ status' = st
    /\ op' = name
    /\ arg' = a
    /\ ret' = r
    /\ calls' = cs
    /\ pre' = [buf |-> Self, q |-> q]
    /\ q' = newq
    /\ UNCHANGED <<CAP, build>>

\* Reference queue: append, and drop the oldest beyond the capacity.
QPush(s, x) == IF Len(s) + 1 > CAP THEN Tail(Append(s, x)) ELSE Append(s, x)

QPop(s) == IF s = <<>> THEN s ELSE Tail(s)

PushBack ==
    \E x \in Elem :
        \E b \in {push_back(Self, x)} :
            Call("push_back", Some(x), b, None, "ok", <<>>, QPush(q, x))

Pop ==
    /\ size > -MaxUnderflow
    /\ \E r \in {pop(Self, build)} :
           Call("pop", None, r.buf, r.ret, r.status, <<>>, QPop(q))

PopNonEmpty == ~is_empty(Self) /\ Pop

PopEmpty == is_empty(Self) /\ Pop

----------------------------------------------------------------------------
\* retain / retain_mut
\*
\* A predicate f: FnMut(&mut T) -> bool is modelled by what its successive
\* invocations do: f.keep[i] is the value returned by invocation number i
\* (counted from 0) and f.mut names what every invocation does to the element
\* it is handed.

Mutators == {"id", "inc"}

Mutate(m, x) == IF m = "inc" THEN (x % MaxElem) + 1 ELSE x

\* Mutants of the mark loop. bug = "skip": the element after a rejected one is
\* stepped over; "writer_always": the writer moves back on every element;
\* "no_clear": a rejected slot is not emptied; "no_writer": the writer is not
\* moved back.
RECURSIVE mark_bug(_, _, _, _, _)
mark_bug(s, i, n, f, bug) ==
    IF UGe(i, n) THEN s
    ELSE IF i = CAP
    THEN [s EXCEPT !.status = IF s.size # n THEN "panic" ELSE "panic_or_hang"]
    ELSE LET slot == get_mut(s.buf, i)
         IN  IF is_none(slot) THEN [s EXCEPT !.status = "panic"]
             ELSE LET idx == unwrap(relative_to_absolute_index(s.buf, i))
                      x == Mutate(f.mut, unwrap(slot))
                      w == IF bug = "writer_always"
                           THEN previous_index(s.buf.writer) ELSE s.buf.writer
                      b1 == [s.buf EXCEPT !.data[idx] = Some(x), !.writer = w]
                      cs == Append(s.calls, [index |-> i, elem |-> unwrap(slot)])
                  IN  IF f.keep[i]
                      THEN mark_bug([s EXCEPT !.buf = b1, !.calls = cs], i + 1, n, f, bug)
                      ELSE mark_bug(
                               [buf |-> [b1 EXCEPT
                                            !.data[idx] = IF bug = "no_clear"
                                                          THEN Some(x) ELSE None,
                                            !.writer = IF bug \in {"no_writer", "writer_always"}
                                                       THEN b1.writer
                                                       ELSE previous_index(b1.writer)],
                                size |-> s.size - 1,
                                calls |-> cs,
                                status |-> "ok"],
                               IF bug = "skip" THEN i + 2 ELSE i + 1, n, f, bug)

mark_skip(s, i, n, f) == mark_bug(s, i, n, f, "skip")

mark_writer_always(s, i, n, f) == mark_bug(s, i, n, f, "writer_always")

mark_no_clear(s, i, n, f) == mark_bug(s, i, n, f, "no_clear")

mark_no_writer(s, i, n, f) == mark_bug(s, i, n, f, "no_writer")

\* The mark loop, lib.rs:139-145, from iteration i with n = self.len() taken
\* when the loop starts. s = [buf, size, calls, status]; s.size is the local
\* `size`. get_mut(i).unwrap() panics on an empty slot. When n exceeds CAP (a
\* wrapped count), the loop comes back to slot reader after CAP iterations:
\* if it rejected an element it meets the emptied slot and panics, otherwise
\* it goes on for up to 2^64 iterations ("panic_or_hang").
RECURSIVE mark(_, _, _, _)
mark(s, i, n, f) ==
    IF UGe(i, n) THEN s
    ELSE IF i = CAP
    THEN [s EXCEPT !.status = IF s.size # n THEN "panic" ELSE "panic_or_hang"]
    ELSE LET slot == get_mut(s.buf, i)
         IN  IF is_none(slot) THEN [s EXCEPT !.status = "panic"]
             ELSE LET idx == unwrap(relative_to_absolute_index(s.buf, i))
                      x == Mutate(f.mut, unwrap(slot))
                      b1 == [s.buf EXCEPT !.data[idx] = Some(x)]
                      cs == Append(s.calls, [index |-> i, elem |-> unwrap(slot)])
                  IN  IF f.keep[i]
                      THEN mark([s EXCEPT !.buf = b1, !.calls = cs], i + 1, n, f)
                      ELSE mark([buf |-> [b1 EXCEPT !.data[idx] = None,
                                                    !.writer = previous_index(b1.writer)],
                                 size |-> s.size - 1,
                                 calls |-> cs,
                                 status |-> "ok"], i + 1, n, f)

\* Mutant of the inner loop: the last occupied slot is taken, not the first.
find_some_last(b, j, n) ==
    LET occupied == {k \in j..(n - 1) : is_some(get_mut(b, k))}
    IN  IF occupied = {} THEN n
        ELSE CHOOSE k \in occupied : \A m \in occupied : m <= k

\* The inner loop, lib.rs:149-156: the first j in j..n-1 whose slot holds an
\* element, or n when there is none.
RECURSIVE find_some(_, _, _)
find_some(b, j, n) ==
    IF j >= n THEN n
    ELSE IF is_some(get_mut(b, j)) THEN j
    ELSE find_some(b, j + 1, n)

swap(b, idx, jdx) ==
    [b EXCEPT !.data = [b.data EXCEPT ![idx] = b.data[jdx], ![jdx] = b.data[idx]]]

\* Mutant of the compaction loop: nothing is moved.
compact_none(b, i, n) == b

\* The compaction loop, lib.rs:147-158, from iteration i.
RECURSIVE compact(_, _, _)
compact(b, i, n) ==
    IF i >= n THEN b
    ELSE IF is_none(get_mut(b, i))
    THEN LET j == find_some(b, i, n)
         IN  IF j < n
             THEN compact(swap(b, unwrap(relative_to_absolute_index(b, i)),
                                  unwrap(relative_to_absolute_index(b, j))), i + 1, n)
             ELSE compact(b, i + 1, n)
    ELSE compact(b, i + 1, n)

\* retain_mut(f): [buf, calls, status]
retain_mut(b, f) ==
    LET m == mark([buf |-> b, size |-> len(b), calls |-> <<>>, status |-> "ok"],
                  0, len(b), f)
    IN  IF m.status # "ok"
        THEN [buf |-> m.buf, calls |-> m.calls, status |-> m.status]
        ELSE [buf |-> [compact(m.buf, 0, len(m.buf)) EXCEPT !.size = m.size],
              calls |-> m.calls,
              status |-> "ok"]

\* retain(f) = retain_mut(|elem| f(elem)): f sees a shared reference.
retain(b, f) == retain_mut(b, [f EXCEPT !.mut = "id"])

\* clear(): self.size pops, the range being taken before the first pop. A
\* wrapped count (size >= 2^63) makes that 2^64 - k pops: "hang".
RECURSIVE clear_loop(_, _, _)
clear_loop(b, k, bld) ==
    IF k = 0 THEN b ELSE clear_loop(pop(b, bld).buf, k - 1, bld)

\* Mutant of clear: the count is reset and nothing is popped.
clear_size_only(b, bld) == [buf |-> [b EXCEPT !.size = 0], status |-> "ok"]

\* Mutant of clear: the loop body runs at least once.
clear_at_least_once(b, bld) ==
    IF b.size < 0
    THEN [buf |-> b, status |-> "hang"]
    ELSE [buf |-> clear_loop(b, IF b.size = 0 THEN 1 ELSE b.size, bld),
          status |-> "ok"]

clear(b, bld) ==
    IF b.size < 0
    THEN [buf |-> b, status |-> "hang"]
    ELSE [buf |-> clear_loop(b, b.size, bld), status |-> "ok"]

----------------------------------------------------------------------------
\* Reference queue under retain: the kept elements, in order, as the
\* predicate left them.
QRetain(s, f) ==
    LET F[i \in 0..Len(s)] ==
            IF i = 0 THEN <<>>
            ELSE IF (i - 1) \in DOMAIN f.keep /\ ~f.keep[i - 1] THEN F[i - 1]
            ELSE Append(F[i - 1], Mutate(f.mut, s[i]))
    IN  F[Len(s)]

\* The predicates tried on a buffer: one answer per possible invocation.
Predicates(b) ==
    LET k == IF b.size \in 0..CAP THEN b.size ELSE CAP
    IN  [keep : [0..(k - 1) -> BOOLEAN], mut : Mutators]

Outcomes(st) == IF st = "panic_or_hang" THEN {"panic", "hang"} ELSE {st}

Retain ==
    \E f \in Predicates(Self) :
        /\ f.mut = "id"
        /\ \E r \in {retain(Self, f)} :
               \E st \in Outcomes(r.status) :
                   Call("retain", f, r.buf, None, st, r.calls, QRetain(q, f))

RetainMut ==
    \E f \in Predicates(Self) :
        \E r \in {retain_mut(Self, f)} :
            \E st \in Outcomes(r.status) :
                Call("retain_mut", f, r.buf, None, st, r.calls, QRetain(q, f))

Clear ==
    \E r \in {clear(Self, build)} :
        Call("clear", None, r.buf, None, r.status, <<>>, <<>>)

----------------------------------------------------------------------------
\* iter() and RingBuffIter::next
\*
\* An iterator is [index, count]; the buffer it borrows is passed beside it.

\* Mutant of iter: the iterator starts at slot 0, not at the reader.
iter_zero(b) == [index |-> 0, count |-> 0]

iter(b) == [index |-> b.reader, count |-> 0]

\* next(): [it, item]. The item is None at the end and also when the slot
\* is empty (current.as_ref()).
iter_next(b, it) ==
    IF it.count = len(b)
    THEN [it |-> it, item |-> None]
    ELSE [it |-> [index |-> next_index(it.index), count |-> it.count + 1],
          item |-> b.data[it.index]]

\* A `for` loop over the iterator: next() until it returns None. With a
\* wrapped len and no empty slot the loop runs on for 2^64 - k steps: "hang".
RECURSIVE collect(_, _, _)
collect(b, it, acc) ==
    LET r == iter_next(b, it)
    IN  IF is_none(r.item) THEN [items |-> acc, status |-> "ok"]
        ELSE IF r.it.count > CAP THEN [items |-> acc, status |-> "hang"]
        ELSE collect(b, r.it, Append(acc, unwrap(r.item)))

\* buffer.iter() run to its end: [buf, items, status]. iter(&self) borrows
\* the buffer shared: it is left as it was.
iterate(b) ==
    LET c == collect(b, iter(b), <<>>)
    IN  [buf |-> b, items |-> c.items, status |-> c.status]

\* Mutant of get_call: get moves the reader past the element it returns.
get_call_moving(b, index) ==
    [buf |-> [b EXCEPT !.reader = next_index(b.reader)], ret |-> get(b, index)]

\* buffer.get(index) as a call: [buf, ret]. get(&self) borrows the buffer
\* shared: it is left as it was.
get_call(b, index) == [buf |-> b, ret |-> get(b, index)]

Get ==
    \E i \in 0..CAP :
        \E r \in {get_call(Self, i)} :
            Call("get", Some(i), r.buf, r.ret, "ok", <<>>, q)

IterAll ==
    \E r \in {iterate(Self)} :
        Call("iter", None, r.buf, r.items, r.status, <<>>, q)

----------------------------------------------------------------------------
\* Every public mutating operation, pop on an empty buffer included.
Next == PushBack \/ PopNonEmpty \/ PopEmpty \/ Retain \/ RetainMut \/ Clear

Spec == Init /\ [][Next]_vars

\* The caller pops only non-empty buffers.
NextNonEmptyPop == PushBack \/ PopNonEmpty \/ Retain \/ RetainMut \/ Clear

SpecNonEmptyPop == Init /\ [][NextNonEmptyPop]_vars

----------------------------------------------------------------------------
\* CAP = 0. new() has no check on CAP and returns a buffer over an empty
\* array. In next_index, `CAP - 1` overflows: a debug build panics there; a
\* release build wraps it to usize::MAX, so next_index(0) is 1, and the call
\* then panics indexing the empty array.

\* push_back(element) with CAP = 0: [buf, status]. is_full() holds (0 = CAP).
push_back_zero(b, element, bld) ==
    IF bld = "debug"
    THEN [buf |-> b, status |-> "panic"]
    ELSE [buf |-> [b EXCEPT !.reader = b.reader + 1], status |-> "panic"]

\* pop() with CAP = 0: [buf, ret, status].
pop_zero(b, bld) ==
    IF bld = "debug"
    THEN [buf |-> b, ret |-> None, status |-> "panic"]
    ELSE [buf |-> [b EXCEPT !.reader = b.reader + 1, !.size = b.size - 1],
          ret |-> None,
          status |-> "panic"]

InitAnyCap ==
    /\ CAP \in 0..MaxCap
    /\ build \in {"debug", "release"}
    /\ data = new(CAP).data
    /\ reader = new(CAP).reader
    /\ writer = new(CAP).writer
    /\ size = new(CAP).size
    /\ status = "ok"
    /\ op = "new"
    /\ arg = None
    /\ ret = None
    /\ calls = <<>>
    /\ pre = [buf |-> new(CAP), q |-> <<>>]
    /\ q = <<>>

PushBackZero ==
    \E x \in Elem :
        \E r \in {push_back_zero(Self, x, build)} :
            Call("push_back", Some(x), r.buf, None, r.status, <<>>, q)

PopZero ==
    \E r \in {pop_zero(Self, build)} :
        Call("pop", None, r.buf, r.ret, r.status, <<>>, q)

\* Every public mutating operation on a buffer of any capacity, 0 included.
NextAnyCap ==
    \/ CAP >= 1 /\ PushBack
    \/ CAP >= 1 /\ PopNonEmpty
    \/ CAP >= 1 /\ PopEmpty
    \/ CAP = 0 /\ PushBackZero
    \/ CAP = 0 /\ PopZero
    \/ Retain
    \/ RetainMut
    \/ Clear

SpecAnyCap == InitAnyCap /\ [][NextAnyCap]_vars

\* The same caller, reading with get and iter as well.
NextObserve == PushBack \/ PopNonEmpty \/ Retain \/ RetainMut \/ Clear \/ Get \/ IterAll

SpecObserve == Init /\ [][NextObserve]_vars

\* push_back, pop at any time (on an empty buffer included) and clear.
NextPopClear == PushBack \/ PopNonEmpty \/ PopEmpty \/ Clear

SpecPopClear == Init /\ [][NextPopClear]_vars

\* push_back and pop on a non-empty buffer only.
NextFifo == PushBack \/ PopNonEmpty

SpecFifo == Init /\ [][NextFifo]_vars

----------------------------------------------------------------------------
\* Vocabulary of the properties

\* The logical contents get(0), ..., get(len() - 1).
Live(b) == [i \in 1..len(b) |-> get(b, i - 1)]

Somes(s) == [i \in 1..Len(s) |-> Some(s[i])]

IsRetain == op \in {"retain", "retain_mut"}

\* Positions the predicate of the last retain rejected / accepted.
Rejected == {i \in DOMAIN arg.keep : ~arg.keep[i]}

Accepted == {i \in DOMAIN arg.keep : arg.keep[i]}

\* The live window of b wraps around the end of storage.
Wraps(b) == b.size > 0 /\ b.reader + b.size > CAP

\* b with storage and cursors rotated by k slots.
Rot(b, k) ==
    [data |-> [j \in 0..(CAP - 1) |-> b.data[(j + CAP - k) % CAP]],
     reader |-> (b.reader + k) % CAP,
     writer |-> (b.writer + k) % CAP,
     size |-> b.size]

----------------------------------------------------------------------------
\* C1: pop() on an empty buffer returns None and leaves reader, writer, size
\* and every slot as they were.
C1_PopEmptyReturnsNoneUnchanged ==
    (op = "pop" /\ pre.buf.size = 0) =>
        /\ status = "ok"
        /\ ret = None
        /\ Self = pre.buf

\* C2: push_back(x) on a full buffer discards exactly the oldest element,
\* keeps len() = CAP, keeps the other CAP-1 elements in order and makes x the
\* newest; the next pop() returns what was the second-oldest (x when CAP = 1).
C2_PushFullEvictsOldest ==
    (op = "push_back" /\ is_full(pre.buf)) =>
        /\ status = "ok"
        /\ len(Self) = CAP
        /\ get(pre.buf, 0) = Some(Head(pre.q))
        /\ Live(Self) = Append(Tail(Live(pre.buf)), arg)
        /\ pop(Self, build).ret = (IF CAP = 1 THEN arg ELSE get(pre.buf, 1))

\* A full buffer whose window wraps took a push, after a retain or a clear
\* had been part of the history (reader and writer away from 0).
C2_Witness ==
    /\ op = "push_back"
    /\ is_full(pre.buf)
    /\ CAP >= 2
    /\ pre.buf.reader # 0
    /\ Head(pre.q) # arg[1]
    /\ Live(Self) = Append(Tail(Live(pre.buf)), arg)

C4_CursorsInRange ==
    /\ reader \in 0..(CAP - 1)
    /\ writer \in 0..(CAP - 1)
    /\ ~ULt(CAP, size)

\* C5: after retain/retain_mut(p) the logical contents are exactly the
\* previous logical contents for which p returned true (as p left them), in
\* their original order, and len() is the number of survivors.
C5_RetainKeepsSubsequence ==
    IsRetain =>
        /\ status = "ok"
        /\ Live(pre.buf) = Somes(pre.q)
        /\ Live(Self) = Somes(QRetain(pre.q, arg))
        /\ len(Self) = Cardinality(Accepted)

\* A retain on a wrapped window that removed an element in front of one it
\* kept.
C5_Witness ==
    /\ IsRetain
    /\ Wraps(pre.buf)
    /\ \E i \in Rejected : \E j \in Accepted : i < j
    /\ Live(Self) = Somes(QRetain(pre.q, arg))

\* C6: one call of retain/retain_mut on n live elements invokes the predicate
\* exactly n times, once on each live element, oldest to newest.
C6_PredicateOncePerElementInOrder ==
    IsRetain =>
        /\ Len(calls) = pre.buf.size
        /\ \A i \in 1..Len(calls) :
               calls[i] = [index |-> i - 1, elem |-> pre.q[i]]

\* A retain over three or more elements whose first invocation rejected.
C6_Witness ==
    /\ IsRetain
    /\ Len(calls) >= 3
    /\ 0 \in Rejected
    /\ 1 \in Accepted
    /\ \A i \in 1..Len(calls) : calls[i].index = i - 1

\* C7: retain/retain_mut with a predicate that is always true and mutates
\* nothing leaves reader, writer, size and every slot unchanged.
C7_RetainAllUnchanged ==
    (IsRetain /\ arg.mut = "id" /\ Rejected = {}) =>
        /\ status = "ok"
        /\ Self = pre.buf

\* An always-true retain on a wrapped window of two or more elements.
C7_Witness ==
    /\ IsRetain
    /\ arg.mut = "id"
    /\ Rejected = {}
    /\ Wraps(pre.buf)
    /\ pre.buf.size >= 2
    /\ Self = pre.buf

\* Operations do not depend on where in storage the window lies: on a
\* buffer rotated by k slots push_back and pop give the rotated buffer and
\* the same result, and get gives the same result.
RotationInvariant(b) ==
    \A k \in 0..(CAP - 1) :
        /\ \A x \in Elem : push_back(Rot(b, k), x) = Rot(push_back(b, x), k)
        /\ ~is_empty(b) =>
               /\ pop(Rot(b, k), build).ret = pop(b, build).ret
               /\ pop(Rot(b, k), build).buf = Rot(pop(b, build).buf, k)
        /\ \A i \in 0..CAP : get(Rot(b, k), i) = get(b, i)

\* C8: retain_mut with an always-false predicate empties the buffer (len 0,
\* every slot empty, reader = writer), and what it leaves is what clear()
\* leaves up to a rotation of storage, which no later push_back, pop on
\* non-empty or get can tell apart.
C8_RetainNoneIsClear ==
    /\ (IsRetain /\ Accepted = {}) =>
           /\ status = "ok"
           /\ len(Self) = 0
           /\ is_empty(Self)
           /\ \A k \in 0..(CAP - 1) : is_none(data[k])
           /\ reader = writer
           /\ \E k \in 0..(CAP - 1) : Self = Rot(clear(pre.buf, build).buf, k)
    /\ RotationInvariant(Self)

\* An always-false retain_mut on two or more elements, where clear() would
\* leave the cursors elsewhere.
C8_Witness ==
    /\ op = "retain_mut"
    /\ Accepted = {}
    /\ pre.buf.size >= 2
    /\ is_empty(Self)
    /\ Self # clear(pre.buf, build).buf

\* C9: after retain_mut removes k of the n live elements, reader is unchanged
\* and writer = (reader + n - k) mod CAP.
C9_RetainWriter ==
    IsRetain =>
        /\ reader = pre.buf.reader
        /\ writer = (pre.buf.reader + pre.buf.size - Cardinality(Rejected)) % CAP

\* A retain on a wrapped window that removed some but not all elements.
C9_Witness ==
    /\ IsRetain
    /\ Wraps(pre.buf)
    /\ Rejected # {}
    /\ Accepted # {}
    /\ writer # pre.buf.writer
    /\ writer = (reader + size) % CAP

\* C10: get(i) is None for i >= len() and for i < len() is the i-th oldest
\* live element, the one in slot (reader + i) mod CAP.
C10_GetIthOldest ==
    \A i \in 0..(CAP + 1) :
        /\ i >= len(Self) => get(Self, i) = None
        /\ i < len(Self) =>
               /\ i < Len(q)
               /\ get(Self, i) = Some(q[i + 1])
               /\ get(Self, i) = data[(reader + i) % CAP]

\* A window that wraps: its newest element lies in a slot below the reader.
C10_Witness ==
    /\ size >= 2
    /\ reader + size - 1 >= CAP
    /\ get(Self, size - 1) = Some(q[size])
    /\ get(Self, 0) # get(Self, size - 1)
    /\ get(Self, size) = None

\* C11: iter() yields exactly len() elements and the k-th yielded element is
\* get(k): the live elements oldest to newest, never stopping early and never
\* yielding an evicted or popped element.
C11_IterYieldsLive ==
    \E c \in {collect(Self, iter(Self), <<>>)} :
        /\ c.status = "ok"
        /\ Len(c.items) = len(Self)
        /\ \A k \in 1..Len(c.items) : Some(c.items[k]) = get(Self, k - 1)
        /\ c.items = q
        /\ (op = "iter" => ret = c.items /\ status = "ok")

\* An iteration over a wrapped window of a buffer that has evicted or popped
\* elements (the reader is away from slot 0).
C11_Witness ==
    /\ op = "iter"
    /\ Wraps(Self)
    /\ size >= 2
    /\ reader # 0
    /\ Len(ret) = size
    /\ ret[1] # ret[size]
    /\ ret = q

C13_ClearEmpties ==
    op = "clear" =>
        /\ status = "ok"
        /\ len(Self) = 0
        /\ \A k \in 0..(CAP - 1) : is_none(data[k])
        /\ reader \in 0..(CAP - 1)
        /\ writer \in 0..(CAP - 1)
        /\ reader = writer

\* A clear of a full buffer of two or more elements that leaves the cursors
\* away from slot 0.
C13_Witness ==
    /\ op = "clear"
    /\ is_full(pre.buf)
    /\ CAP >= 2
    /\ reader # 0
    /\ reader = writer
    /\ len(Self) = 0

\* C14: clear() is idempotent: the state after clear(); clear() is the state
\* after one clear().
C14_ClearIdempotent ==
    (op = "clear" /\ status = "ok") =>
        clear(Self, build) = [buf |-> Self, status |-> "ok"]

\* A clear that removed two or more elements; a second clear changes nothing.
C14_Witness ==
    /\ op = "clear"
    /\ status = "ok"
    /\ pre.buf.size >= 2
    /\ Self # pre.buf
    /\ clear(Self, build).buf = Self

\* C15: on every empty buffer, wherever reader = writer lies, push_back(x)
\* followed by pop() returns x and leaves the buffer empty with all slots
\* None; CAP = 1 included.
C15_PushThenPop ==
    is_empty(Self) =>
        \A x \in Elem :
            \E r \in {pop(push_back(Self, x), build)} :
                /\ r.status = "ok"
                /\ r.ret = Some(x)
                /\ len(r.buf) = 0
                /\ is_empty(r.buf)
                /\ \A k \in 0..(CAP - 1) : is_none(r.buf.data[k])

\* A pop that returned the only element, pushed at a slot other than 0, and
\* left the buffer empty.
C15_Witness ==
    /\ op = "pop"
    /\ pre.buf.size = 1
    /\ pre.buf.reader # 0
    /\ ret = Some(Head(pre.q))
    /\ is_empty(Self)
    /\ \A k \in 0..(CAP - 1) : is_none(data[k])

\* C16: constructing a buffer with capacity 0 fails: no buffer with CAP = 0
\* is ever produced, so nothing ever runs with CAP = 0.
C16_NoZeroCapacityBuffer == CAP >= 1

\* C17: a failed pop is recoverable: pop() on an empty buffer returns None,
\* and a push_back(x) followed by pop() then returns x.
C17_FailedPopRecoverable ==
    (op = "pop" /\ pre.buf.size = 0) =>
        /\ status = "ok"
        /\ ret = None
        /\ \A x \in Elem :
               \E r \in {pop(push_back(Self, x), build)} :
                   r.status = "ok" /\ r.ret = Some(x)

C19_WriterIsReaderPlusSize ==
    /\ writer = (reader + size) % CAP
    /\ (writer = reader) <=> (size = 0 \/ size = CAP)
    /\ is_full(Self) => get(Self, 0) = data[writer]

\* A partly filled wrapped window left by a retain: the writer lies below
\* the reader.
C19_Witness ==
    /\ IsRetain
    /\ Rejected # {}
    /\ size >= 2
    /\ size < CAP
    /\ writer < reader
    /\ writer = (reader + size) % CAP

\* C20: between operations, slot k holds an element exactly when k is in
\* the live window {(reader + i) mod CAP : 0 <= i < size}; so the unwrap in
\* retain_mut never panics and the iterator never meets an empty slot.
C20_OccupiedIffLive ==
    /\ \A k \in 0..(CAP - 1) :
           is_some(data[k]) <=> (\E i \in 0..(size - 1) : k = (reader + i) % CAP)
    /\ IsRetain => status = "ok"
    /\ \A f \in Predicates(Self) : retain_mut(Self, f).status = "ok"
    /\ Len(collect(Self, iter(Self), <<>>).items) = size

\* A retain that rejected an element in front of one it kept, on a wrapped
\* window, leaving both occupied and empty slots.
C20_Witness ==
    /\ IsRetain
    /\ Wraps(pre.buf)
    /\ \E i \in Rejected : \E j \in Accepted : i < j
    /\ size >= 1
    /\ size < CAP
    /\ \A k \in 0..(CAP - 1) :
           is_some(data[k]) <=> (\E i \in 0..(size - 1) : k = (reader + i) % CAP)

====
